---- MODULE Spec2Model ----
(***************************************************************************)
(* Model of tls/s2n_config.c: the configuration object of s2n, its         *)
(* allocation and teardown, and the attachment of a certificate chain, a   *)
(* private key and Diffie-Hellman parameters decoded from PEM text.        *)
(*                                                                         *)
(* PEM text is a sequence of one-character tokens:                         *)
(*   "B"  a -----BEGIN CERTIFICATE----- line                               *)
(*   "E"  an -----END CERTIFICATE----- line                                *)
(*   "0".."3"  characters of the encoding alphabet (two of them encode one *)
(*             byte, as four base64 characters encode three)               *)
(*   "x"  a character outside the encoding alphabet                        *)
(*   "w"  whitespace                                                       *)
(*   "t"  any other text outside a block                                   *)
(***************************************************************************)
EXTENDS Integers, Sequences, FiniteSets, TLC

VARIABLES
    pc,                 \* position of the single caller thread
    config,             \* the struct s2n_config the caller holds
    rand_method,        \* OpenSSL's process-wide RAND method
    allocs,             \* s2n_alloc calls that succeeded, per kind of object
    frees,              \* s2n_free calls, per kind of object
    args,               \* arguments of the call in progress or last returned
    pre,                \* config and rand_method at entry of that call
    ret,                \* what that call returned: op, rc, *err
    chain_in_stuffer,   \* local of s2n_config_add_cert_chain_and_key
    cert_out_stuffer,   \* local of s2n_config_add_cert_chain_and_key
    insert,             \* local: the slot the next node is linked into
    chain_size,         \* local: uint32_t running wire size
    iterations,         \* passes through the do-while body in this call
    decode_err,         \* what the PEM decoder last reported in this call
    calls               \* add_* calls made on this configuration

vars == <<pc, config, rand_method, allocs, frees, args, pre, ret,
          chain_in_stuffer, cert_out_stuffer, insert, chain_size,
          iterations, decode_err, calls>>

(***************************************************************************)
(* Bounds of the model.                                                    *)
(***************************************************************************)
MaxPieces == 2
MaxCalls == 2

(***************************************************************************)
(* Program constants.                                                      *)
(***************************************************************************)
CipherCount == 8
LengthFieldBytes == 3

wire_format_20140601 ==
    << "TLS_DHE_RSA_WITH_AES_128_CBC_SHA256", "TLS_DHE_RSA_WITH_AES_128_CBC_SHA",
       "TLS_DHE_RSA_WITH_3DES_EDE_CBC_SHA", "TLS_RSA_WITH_AES_128_CBC_SHA256",
       "TLS_RSA_WITH_AES_128_CBC_SHA", "TLS_RSA_WITH_3DES_EDE_CBC_SHA",
       "TLS_RSA_WITH_RC4_128_SHA", "TLS_RSA_WITH_RC4_128_MD5" >>

cipher_preferences_20140601 ==
    [count |-> CipherCount, wire_format |-> wire_format_20140601]

s2n_cipher_preferences_default == cipher_preferences_20140601

(***************************************************************************)
(* Inputs.  A chain input is the concatenation of at most MaxPieces        *)
(* pieces of text; a key or DH-parameter input is classified by how far    *)
(* its conversion gets.                                                    *)
(***************************************************************************)
PieceNames == {"GoodA", "GoodB", "Bad", "Junk"}

PieceText(p) ==
    CASE p = "GoodA" -> <<"B", "0", "1", "E", "w">>
      [] p = "GoodB" -> <<"B", "1", "0", "2", "3", "E", "w">>
      [] p = "Bad"   -> <<"B", "0", "x", "E", "w">>
      [] p = "Junk"  -> <<"t">>

\* The certificate bytes each well-formed piece was encoded from.
PieceDer(p) ==
    CASE p = "GoodA" -> <<1>>
      [] p = "GoodB" -> <<4, 11>>
      [] OTHER       -> <<>>

ChainInputs == UNION {[1..n -> PieceNames] : n \in 0..MaxPieces}

RECURSIVE Flatten(_)
Flatten(ps) ==
    IF ps = <<>> THEN <<>> ELSE PieceText(Head(ps)) \o Flatten(Tail(ps))

KeyInputs == {"valid", "bad_pem", "bad_der"}
DhInputs == {"valid", "bad_pem", "bad_der"}

(***************************************************************************)
(* Memory.  An allocation is counted under the kind of object it is for;   *)
(* its address is its serial number.  Memory s2n_alloc hands out is not    *)
(* initialised: a pointer read from it is NULL or wild.                     *)
(***************************************************************************)
Kinds == {"config", "cipher_preferences", "wire_format", "cert_chain_and_key",
          "key_out", "cert_out", "cert_chain", "cert", "dh_params", "dhparams_out"}

RECURSIVE SumOver(_, _)
SumOver(f, S) ==
    IF S = {} THEN 0
    ELSE LET k == CHOOSE x \in S : TRUE IN f[k] + SumOver(f, S \ {k})

NextAddr(a) == SumOver(a, Kinds) + 1

s2n_alloc(a, kind) == [a EXCEPT ![kind] = @ + 1]

s2n_free(f, kind) == [f EXCEPT ![kind] = @ + 1]

UninitPtr == {"NULL", "WILD"}

NullChainAndKey ==
    [ptr |-> "NULL", addr |-> 0, private_key |-> "none", head |-> "NULL",
     chain |-> <<>>, chain_size |-> 0]

NullDhParams == [ptr |-> "NULL", addr |-> 0, params |-> "none"]

NullPreferences == [ptr |-> "NULL", count |-> 0, wire_format |-> <<>>]

NoConfig ==
    [cert_and_key_pairs |-> NullChainAndKey, dhparams |-> NullDhParams,
     cipher_preferences |-> NullPreferences]

(***************************************************************************)
(* Stuffers: a byte region with a read and a write cursor.                 *)
(***************************************************************************)
NoStuffer == [data |-> <<>>, read_cursor |-> 0, write_cursor |-> 0]

s2n_stuffer_alloc_ro_from_string(str) ==
    [data |-> str, read_cursor |-> 0, write_cursor |-> Len(str)]

s2n_stuffer_growable_alloc == NoStuffer

s2n_stuffer_data_available(s) == s.write_cursor - s.read_cursor

s2n_stuffer_write(s, bytes) ==
    [s EXCEPT !.data = SubSeq(s.data, 1, s.write_cursor) \o bytes,
              !.write_cursor = @ + Len(bytes)]

\* The n bytes a read returns, and the stuffer after it.
StufferPeek(s, n) == SubSeq(s.data, s.read_cursor + 1, s.read_cursor + n)

s2n_stuffer_read(s, n) == [s EXCEPT !.read_cursor = @ + n]

(***************************************************************************)
(* The PEM decoder.                                                        *)
(***************************************************************************)
Digits == {"0", "1", "2", "3"}

DigitVal(c) == CASE c = "0" -> 0 [] c = "1" -> 1 [] c = "2" -> 2 [] c = "3" -> 3

Decodable(body) ==
    /\ Len(body) % 2 = 0
    /\ \A i \in 1..Len(body) : body[i] \in Digits

RECURSIVE DecodeBody(_)
DecodeBody(body) ==
    IF Len(body) < 2 THEN <<>>
    ELSE <<4 * DigitVal(body[1]) + DigitVal(body[2])>>
         \o DecodeBody(SubSeq(body, 3, Len(body)))

\* Least index >= from holding ch, or 0.
FindFrom(data, from, ch) ==
    LET hits == {i \in from..Len(data) : data[i] = ch}
    IN  IF hits = {} THEN 0 ELSE CHOOSE i \in hits : \A j \in hits : i <= j

\* Last index of the whitespace run that follows index at.
RECURSIVE SkipWhitespace(_, _)
SkipWhitespace(data, at) ==
    IF at < Len(data) /\ data[at + 1] = "w"
    THEN SkipWhitespace(data, at + 1) ELSE at

s2n_stuffer_certificate_from_pem(in, out) ==
    LET begin == FindFrom(in.data, in.read_cursor + 1, "B")
        end   == IF begin = 0 THEN 0 ELSE FindFrom(in.data, begin + 1, "E")
        body  == SubSeq(in.data, begin + 1, end - 1)
    IN  IF begin = 0 \/ end = 0
        THEN [rc |-> -1, err |-> "NoPemBlockFound", in |-> in, out |-> out]
        ELSE IF ~Decodable(body)
        THEN [rc |-> -1, err |-> "MalformedBase64", in |-> in, out |-> out]
        ELSE [rc |-> 0, err |-> "none",
              in |-> [in EXCEPT !.read_cursor = SkipWhitespace(in.data, end)],
              out |-> s2n_stuffer_write(out, DecodeBody(body))]

(***************************************************************************)
(* The state before s2n_config_new.                                        *)
(***************************************************************************)
\* What a call finds on entry: the two references of the configuration (which
\* object each points at, not the object's contents) and the RAND method.
Ref(p) == [ptr |-> p.ptr, addr |-> p.addr]

Snapshot(cfg, rand) ==
    [cert_and_key_pairs |-> Ref(cfg.cert_and_key_pairs),
     dhparams |-> Ref(cfg.dhparams), rand_method |-> rand]

NoArgs ==
    [cert_chain_pem |-> <<>>, chain_read |-> FALSE, private_key_pem |-> "none",
     dhparams_pem |-> "none"]

Init ==
    /\ pc = "start"
    /\ config = NoConfig
    /\ rand_method = "openssl"
    /\ allocs = [k \in Kinds |-> 0]
    /\ frees = [k \in Kinds |-> 0]
    /\ args = NoArgs
    /\ pre = Snapshot(NoConfig, "openssl")
    /\ ret = [op |-> "none", rc |-> 0, err |-> "none"]
    /\ chain_in_stuffer = NoStuffer
    /\ cert_out_stuffer = NoStuffer
    /\ insert = 0
    /\ chain_size = 0
    /\ iterations = 0
    /\ decode_err = "none"
    /\ calls = 0

Locals == <<chain_in_stuffer, cert_out_stuffer, insert, chain_size, iterations,
           decode_err>>

(***************************************************************************)
(* s2n_config_new: three allocations, the second and third for a private   *)
(* copy of the default cipher preferences.  cert_and_key_pairs is set to   *)
(* NULL; dhparams is never assigned.                                       *)
(***************************************************************************)
NewConfig(dh) ==
    [cert_and_key_pairs |-> NullChainAndKey,
     dhparams |-> [ptr |-> dh, addr |-> 0, params |-> "none"],
     cipher_preferences |->
        [ptr |-> "valid", count |-> s2n_cipher_preferences_default.count,
         wire_format |-> wire_format_20140601]]

s2n_config_new ==
    /\ pc = "start"
    /\ \E oom \in {"none", "config", "cipher_preferences", "wire_format"},
          dh \in UninitPtr :
        LET a1 == IF oom = "config" THEN allocs ELSE s2n_alloc(allocs, "config")
            a2 == IF oom \in {"config", "cipher_preferences"} THEN a1
                  ELSE s2n_alloc(a1, "cipher_preferences")
            a3 == IF oom # "none" THEN a2 ELSE s2n_alloc(a2, "wire_format")
        IN  /\ allocs' = a3
            /\ IF oom = "none"
               THEN /\ config' = NewConfig(dh)
                    /\ pc' = "idle"
                    /\ ret' = [op |-> "new", rc |-> 0, err |-> "none"]
               ELSE /\ config' = NoConfig
                    /\ pc' = "failed"
                    /\ ret' = [op |-> "new", rc |-> -1, err |-> "OutOfMemory"]
    /\ pre' = Snapshot(config, rand_method)
    /\ UNCHANGED <<rand_method, frees, args, calls>>
    /\ UNCHANGED Locals

(***************************************************************************)
(* s2n_config_free: releases the block of the struct s2n_config itself.    *)
(***************************************************************************)
s2n_config_free ==
    /\ pc = "idle"
    /\ frees' = s2n_free(frees, "config")
    /\ pc' = "freed"
    /\ ret' = [op |-> "free", rc |-> 0, err |-> "none"]
    /\ pre' = Snapshot(config, rand_method)
    /\ UNCHANGED <<config, rand_method, allocs, args, calls>>
    /\ UNCHANGED Locals

(***************************************************************************)
(* s2n_config_add_cert_chain_and_key, lines 89-109: up to the do-while.    *)
(* The step that fails first in program order ends the call; everything    *)
(* done before it stays done.                                              *)
(***************************************************************************)
AddCertFailure(key, oom) ==
    IF oom = "cert_chain_and_key" THEN "cert_chain_and_key"
    ELSE IF oom = "key_out" THEN "key_out"
    ELSE IF key = "bad_pem" THEN "key_pem"
    ELSE IF key = "bad_der" THEN "key_der"
    ELSE IF oom = "cert_out" THEN "cert_out"
    ELSE "none"

AddCertErr(f) ==
    CASE f \in {"cert_chain_and_key", "key_out", "cert_out"} -> "OutOfMemory"
      [] f = "key_pem" -> "MalformedBase64"
      [] f = "key_der" -> "KeyDecodeError"
      [] OTHER -> "none"

\* Line 90: the fields of the fresh struct hold whatever the memory held.  The
\* code assigns head and chain_size before anything reads them, or returns
\* failure: "UNINIT" and -1 stand for their indeterminate values.
FreshChainAndKey(addr) ==
    [ptr |-> "valid", addr |-> addr, private_key |-> "uninit", head |-> "UNINIT",
     chain |-> <<>>, chain_size |-> -1]

\* Line 91.
AttachChainAndKey(cfg, ck) == [cfg EXCEPT !.cert_and_key_pairs = ck]

\* Line 102.
s2n_asn1der_to_rsa_private_key(cfg) ==
    [cfg EXCEPT !.cert_and_key_pairs.private_key = "rsa"]

\* An argument is drawn where the code first reads it: the key text at line
\* 98, the chain text at line 105.  A call that fails earlier has read neither.
s2n_config_add_cert_chain_and_key ==
    /\ pc = "idle"
    /\ calls < MaxCalls
    /\ \E oom \in {"none", "cert_chain_and_key", "key_out", "cert_out"} :
       \E key \in IF oom \in {"cert_chain_and_key", "key_out"}
                  THEN {"unread"} ELSE KeyInputs :
       \E pieces \in IF AddCertFailure(key, oom) \in {"none", "cert_out"}
                     THEN ChainInputs ELSE {<<>>} :
        LET f  == AddCertFailure(key, oom)
            a1 == IF f = "cert_chain_and_key" THEN allocs
                  ELSE s2n_alloc(allocs, "cert_chain_and_key")
            a2 == IF f \in {"cert_chain_and_key", "key_out"} THEN a1
                  ELSE s2n_alloc(a1, "key_out")
            a3 == IF f # "none" THEN a2 ELSE s2n_alloc(a2, "cert_out")
            c1 == IF f = "cert_chain_and_key" THEN config
                  ELSE AttachChainAndKey(config, FreshChainAndKey(NextAddr(allocs)))
            c2 == IF f \in {"none", "cert_out"}
                  THEN s2n_asn1der_to_rsa_private_key(c1) ELSE c1
        IN  /\ args' = [cert_chain_pem |-> pieces,
                        chain_read |-> f \in {"none", "cert_out"},
                        private_key_pem |-> key, dhparams_pem |-> "none"]
            /\ allocs' = a3
            /\ config' = c2
            /\ IF f = "none"
               THEN /\ chain_in_stuffer' = s2n_stuffer_alloc_ro_from_string(Flatten(pieces))
                    /\ cert_out_stuffer' = s2n_stuffer_growable_alloc
                    /\ insert' = 1
                    /\ pc' = "loop"
                    /\ ret' = [op |-> "add_cert", rc |-> 0, err |-> "none"]
               ELSE /\ chain_in_stuffer' = NoStuffer
                    /\ cert_out_stuffer' = NoStuffer
                    /\ insert' = 0
                    /\ pc' = "idle"
                    /\ ret' = [op |-> "add_cert", rc |-> -1, err |-> AddCertErr(f)]
    /\ chain_size' = 0
    /\ iterations' = 0
    /\ decode_err' = "none"
    /\ calls' = calls + 1
    /\ pre' = Snapshot(config, rand_method)
    /\ UNCHANGED <<rand_method, frees>>

(***************************************************************************)
(* One pass through the do-while body, lines 110-132, and, when the loop   *)
(* is left, lines 134-139.                                                 *)
(***************************************************************************)
\* A loop that takes every failure of the decoder as the end of the chain.
DecoderFailedAlwaysBreaks(size) == "break"

\* Lines 114-118: what a failure of the decoder leads to.
DecoderFailed(size) == IF size = 0 THEN "error" ELSE "break"

\* An accumulator that leaves out the length field.
AddToChainSizeNoLengthField(size, cert_size) == size + cert_size

\* Line 128.  chain_size is a uint32_t.  Every certificate and its three bytes
\* come from more than that many characters of the chain text, so the sum can
\* wrap only for a text of more than 2^32 characters; the texts of this model
\* are far shorter and the sum is added without the wrap.
AddToChainSize(size, cert_size) == size + cert_size + LengthFieldBytes

\* Lines 129-130: *insert = new_node with new_node->next = NULL.  Slot 1 is
\* the head, slot k + 1 the next field of node k.
LinkNode(ck, slot, node) ==
    LET kept == SubSeq(ck.chain, 1, slot - 1)
        prev == IF slot = 1 THEN kept
                ELSE [kept EXCEPT ![slot - 1].next = "valid"]
    IN  [ck EXCEPT !.head = IF slot = 1 THEN "valid" ELSE @,
                   !.chain = prev \o <<node>>]

\* An insert reference that is never moved to the new node's next field.
AdvanceInsertStuck(slot) == slot

\* Line 131.
AdvanceInsert(slot) == slot + 1

\* A loop that only a failure of the decoder ends.
LoopContinuesAlways(in) == TRUE

\* Line 132.
LoopContinues(in) == s2n_stuffer_data_available(in) # 0

\* Line 134.
StoreChainSize(cfg, size) == [cfg EXCEPT !.cert_and_key_pairs.chain_size = size]

\* A call that leaves the RAND method alone.
RAND_method_kept(old) == old

\* Line 137.
RAND_set_rand_method(old) == "s2n"

cert_chain_loop ==
    /\ pc = "loop"
    /\ iterations' = iterations + 1
    /\ \E oom \in {"none", "cert_chain", "cert"} :
        LET d    == s2n_stuffer_certificate_from_pem(chain_in_stuffer, cert_out_stuffer)
            n    == s2n_stuffer_data_available(d.out)
            node == [addr |-> NextAddr(allocs),
                     cert |-> [data |-> StufferPeek(d.out, n), size |-> n],
                     next |-> "NULL"]
            size == AddToChainSize(chain_size, n)
        IN  /\ decode_err' = d.err
            /\ IF d.rc < 0
               THEN /\ oom = "none"
                    /\ UNCHANGED <<chain_in_stuffer, cert_out_stuffer, insert,
                                   chain_size, allocs>>
                    /\ pc' = "idle"
                    /\ IF DecoderFailed(chain_size) = "error"
                       THEN /\ ret' = [op |-> "add_cert", rc |-> -1,
                                       err |-> "No certificates found in PEM"]
                            /\ UNCHANGED <<config, rand_method>>
                       ELSE /\ ret' = [op |-> "add_cert", rc |-> 0, err |-> d.err]
                            /\ config' = StoreChainSize(config, chain_size)
                            /\ rand_method' = RAND_set_rand_method(rand_method)
               ELSE /\ chain_in_stuffer' = d.in
                    /\ IF oom = "cert_chain"
                       THEN /\ allocs' = allocs
                            /\ cert_out_stuffer' = d.out
                            /\ UNCHANGED <<config, rand_method, insert, chain_size>>
                            /\ pc' = "idle"
                            /\ ret' = [op |-> "add_cert", rc |-> -1, err |-> "OutOfMemory"]
                       ELSE IF oom = "cert"
                       THEN /\ allocs' = s2n_alloc(allocs, "cert_chain")
                            /\ cert_out_stuffer' = d.out
                            /\ UNCHANGED <<config, rand_method, insert, chain_size>>
                            /\ pc' = "idle"
                            /\ ret' = [op |-> "add_cert", rc |-> -1, err |-> "OutOfMemory"]
                       ELSE /\ allocs' = s2n_alloc(s2n_alloc(allocs, "cert_chain"), "cert")
                            /\ cert_out_stuffer' = s2n_stuffer_read(d.out, n)
                            /\ chain_size' = size
                            /\ insert' = AdvanceInsert(insert)
                            /\ ret' = [op |-> "add_cert", rc |-> 0, err |-> "none"]
                            /\ LET linked == [config EXCEPT !.cert_and_key_pairs =
                                                  LinkNode(@, insert, node)]
                               IN  IF LoopContinues(d.in)
                                   THEN /\ pc' = "loop"
                                        /\ config' = linked
                                        /\ UNCHANGED rand_method
                                   ELSE /\ pc' = "idle"
                                        /\ config' = StoreChainSize(linked, size)
                                        /\ rand_method' = RAND_set_rand_method(rand_method)
    /\ UNCHANGED <<frees, args, pre, calls>>

(***************************************************************************)
(* s2n_config_add_dhparams.                                                *)
(***************************************************************************)
AddDhFailure(dh, oom) ==
    IF oom = "dh_params" THEN "dh_params"
    ELSE IF oom = "dhparams_out" THEN "dhparams_out"
    ELSE IF dh = "bad_pem" THEN "dh_pem"
    ELSE IF dh = "bad_der" THEN "dh_der"
    ELSE "none"

AddDhErr(f) ==
    CASE f \in {"dh_params", "dhparams_out"} -> "OutOfMemory"
      [] f = "dh_pem" -> "MalformedBase64"
      [] f = "dh_der" -> "ParamDecodeError"
      [] OTHER -> "none"

\* A version that clears the configuration's other reference when it attaches.
AttachDhParamsClearingChain(cfg, addr) ==
    [cfg EXCEPT !.dhparams = [ptr |-> "valid", addr |-> addr, params |-> "uninit"],
                !.cert_and_key_pairs = NullChainAndKey]

\* Line 150.
AttachDhParams(cfg, addr) ==
    [cfg EXCEPT !.dhparams = [ptr |-> "valid", addr |-> addr, params |-> "uninit"]]

\* Line 162.
s2n_pkcs3_to_dh_params(cfg) == [cfg EXCEPT !.dhparams.params = "dh"]

s2n_config_add_dhparams ==
    /\ pc = "idle"
    /\ calls < MaxCalls
    /\ \E oom \in {"none", "dh_params", "dhparams_out"} :
       \E dh \in IF oom = "none" THEN DhInputs ELSE {"unread"} :
        LET f  == AddDhFailure(dh, oom)
            a1 == IF f = "dh_params" THEN allocs ELSE s2n_alloc(allocs, "dh_params")
            a2 == IF f \in {"dh_params", "dhparams_out"} THEN a1
                  ELSE s2n_alloc(a1, "dhparams_out")
            c1 == IF f = "dh_params" THEN config
                  ELSE AttachDhParams(config, NextAddr(allocs))
            c2 == IF f = "none" THEN s2n_pkcs3_to_dh_params(c1) ELSE c1
        IN  /\ args' = [NoArgs EXCEPT !.dhparams_pem = dh]
            /\ allocs' = a2
            /\ config' = c2
            /\ ret' = [op |-> "add_dh", rc |-> IF f = "none" THEN 0 ELSE -1,
                       err |-> AddDhErr(f)]
    /\ pc' = "idle"
    /\ calls' = calls + 1
    /\ pre' = Snapshot(config, rand_method)
    /\ UNCHANGED <<rand_method, frees>>
    /\ UNCHANGED Locals

Next ==
    \/ s2n_config_new
    \/ s2n_config_free
    \/ s2n_config_add_cert_chain_and_key
    \/ cert_chain_loop
    \/ s2n_config_add_dhparams

Spec == Init /\ [][Next]_vars

\* One call of s2n_config_add_cert_chain_and_key on a new configuration, run to
\* its return: the caller's thread keeps executing a call that entered the loop.
NextOneCall ==
    \/ s2n_config_new
    \/ (calls = 0 /\ s2n_config_add_cert_chain_and_key)
    \/ cert_chain_loop

FairSpec == Init /\ [][NextOneCall]_vars /\ WF_vars(cert_chain_loop)

(***************************************************************************)
(* Vocabulary of the properties.                                           *)
(***************************************************************************)
Returned(op) == pc = "idle" /\ ret.op = op

ChainAndKey == config.cert_and_key_pairs

HasChain == config.cert_and_key_pairs.ptr = "valid"

HasDh == config.dhparams.ptr = "valid"

ChainText == Flatten(args.cert_chain_pem)

\* PEM blocks of a text: its END lines, each closing the block its BEGIN opened.
NumBlocks(text) == Cardinality({i \in 1..Len(text) : text[i] = "E"})

BlocksBefore(text, cursor) == Cardinality({i \in 1..cursor : text[i] = "E"})

IsGood(p) == p \in {"GoodA", "GoodB"}

GoodPieces(ps) == SelectSeq(ps, IsGood)

\* The chain text holds at least one block and every block of it is well formed.
WellFormedChain ==
    /\ args.chain_read
    /\ \A i \in 1..Len(args.cert_chain_pem) : args.cert_chain_pem[i] # "Bad"
    /\ Len(GoodPieces(args.cert_chain_pem)) >= 1

RECURSIVE WireSize(_)
WireSize(chain) ==
    IF chain = <<>> THEN 0
    ELSE Len(Head(chain).cert.data) + 3 + WireSize(Tail(chain))

(***************************************************************************)
(* C1.  After a successful add_cert_chain_and_key on a chain text of       *)
(* N >= 1 well-formed blocks, the stored chain_size is the sum over the N  *)
(* nodes of the chain of the node's certificate length plus 3.             *)
(***************************************************************************)
C1_ChainSize ==
    (Returned("add_cert") /\ ret.rc = 0 /\ WellFormedChain) =>
        /\ Len(ChainAndKey.chain) = Len(GoodPieces(args.cert_chain_pem))
        /\ ChainAndKey.chain_size = WireSize(ChainAndKey.chain)

C1_Witness ==
    /\ Returned("add_cert") /\ ret.rc = 0
    /\ args.cert_chain_pem = <<"GoodA", "GoodB">>
    /\ ChainAndKey.chain_size = 9

(***************************************************************************)
(* C2.  After a successful add_cert_chain_and_key on a chain text of       *)
(* N >= 1 well-formed blocks, the chain has N nodes reachable from the     *)
(* head in the order of the blocks, node i holds exactly the bytes block i *)
(* encodes, and the next reference of the last node is empty.              *)
(***************************************************************************)
C2_ChainOrder ==
    (Returned("add_cert") /\ ret.rc = 0 /\ WellFormedChain) =>
        LET good  == GoodPieces(args.cert_chain_pem)
            chain == ChainAndKey.chain
        IN  /\ ChainAndKey.head = "valid"
            /\ Len(chain) = Len(good)
            /\ \A i \in 1..Len(chain) :
                /\ chain[i].cert.data = PieceDer(good[i])
                /\ chain[i].cert.size = Len(PieceDer(good[i]))
                /\ chain[i].next = IF i = Len(chain) THEN "NULL" ELSE "valid"

C2_Witness ==
    /\ Returned("add_cert") /\ ret.rc = 0
    /\ args.cert_chain_pem = <<"GoodB", "GoodA">>
    /\ Len(ChainAndKey.chain) = 2
    /\ ChainAndKey.chain[1].cert.data = <<4, 11>>
    /\ ChainAndKey.chain[2].cert.data = <<1>>
    /\ ChainAndKey.chain[2].next = "NULL"

(***************************************************************************)
(* C3.  Atomic attach: when add_cert_chain_and_key or add_dh_params        *)
(* returns failure, the chain-and-key reference and the DH-params          *)
(* reference of the configuration are what they were before the call.      *)
(***************************************************************************)
C3_AtomicAttach ==
    ((Returned("add_cert") \/ Returned("add_dh")) /\ ret.rc < 0) =>
        /\ Ref(config.cert_and_key_pairs) = pre.cert_and_key_pairs
        /\ Ref(config.dhparams) = pre.dhparams

(***************************************************************************)
(* C4.  A chain text with no PEM block and a valid private key: the call   *)
(* fails with "No certificates found in PEM" and never succeeds with a     *)
(* chain of no node.                                                       *)
(***************************************************************************)
NoCertificates == "No certificates found in PEM"

C4_EmptyChainError ==
    (/\ Returned("add_cert")
     /\ args.private_key_pem = "valid"
     /\ args.chain_read /\ NumBlocks(ChainText) = 0) =>
        ret.rc < 0 /\ ret.err = NoCertificates

\* C4, as amended: the call fails, with "No certificates found in PEM" when the
\* loop was reached and with the allocator's error when an allocation failed
\* before it; it never succeeds.
C4_EmptyChainFails ==
    (/\ Returned("add_cert")
     /\ args.private_key_pem \in {"valid", "unread"}
     /\ args.chain_read => NumBlocks(ChainText) = 0) =>
        /\ ret.rc < 0
        /\ ret.err \in {NoCertificates, "OutOfMemory"}
        /\ ret.err = NoCertificates <=> iterations = 1

C4_Witness ==
    /\ Returned("add_cert")
    /\ args.private_key_pem = "valid"
    /\ args.chain_read /\ args.cert_chain_pem = <<"Junk">>
    /\ ret.rc < 0 /\ ret.err = NoCertificates

(***************************************************************************)
(* C5.  No silent truncation: when the decoder fails with MalformedBase64  *)
(* on a block of the chain text, also one that follows decoded             *)
(* certificates, add_cert_chain_and_key returns failure.                   *)
(***************************************************************************)
C5_MalformedBlockFails ==
    (Returned("add_cert") /\ decode_err = "MalformedBase64") => ret.rc < 0

(***************************************************************************)
(* C6.  After new(), at most one add of each kind and free(), every        *)
(* allocation made for the configuration has been released exactly once.   *)
(***************************************************************************)
OwnedKinds == {"config", "cipher_preferences", "wire_format", "cert_chain_and_key",
               "cert_chain", "cert", "dh_params"}

C6_FreeReleasesAll ==
    (/\ pc = "freed"
     /\ allocs["cert_chain_and_key"] <= 1
     /\ allocs["dh_params"] <= 1) =>
        \A k \in OwnedKinds : frees[k] = allocs[k]

(***************************************************************************)
(* C7.  When new() succeeds the configuration has no chain and key, no DH  *)
(* params and the default cipher preferences (8 identifiers, in the order  *)
(* of the 2014-06-01 table); when an allocation fails new() returns no     *)
(* configuration.                                                          *)
(***************************************************************************)
C7_NewIsEmpty ==
    /\ Returned("new") =>
        /\ config.cert_and_key_pairs.ptr = "NULL"
        /\ config.dhparams.ptr = "NULL"
        /\ config.cipher_preferences.count = 8
        /\ config.cipher_preferences.wire_format = wire_format_20140601
    /\ (ret.op = "new" /\ ret.rc < 0) => (pc = "failed" /\ config = NoConfig)

(***************************************************************************)
(* C8.  After any call of add_cert_chain_and_key returns, whatever its     *)
(* result, the global random source is the s2n override.                   *)
(***************************************************************************)
C8_RandAfterEveryCall == Returned("add_cert") => rand_method = "s2n"

\* C8, as amended: a call that succeeds leaves the s2n override installed; a call
\* that fails leaves the random source as it found it.
C8_RandAfterSuccess ==
    Returned("add_cert") =>
        /\ ret.rc = 0 => rand_method = "s2n"
        /\ ret.rc < 0 => rand_method = pre.rand_method

C8_Witness ==
    /\ Returned("add_cert") /\ ret.rc = 0
    /\ pre.rand_method = "openssl" /\ rand_method = "s2n"

(***************************************************************************)
(* C9.  The configuration is Empty, HasChain or HasChainAndDh: DH params   *)
(* are never attached without a chain and key, no call takes the           *)
(* configuration back to an earlier state, and only free() ends its life.  *)
(***************************************************************************)
Monotonic ==
    /\ HasChain => HasChain'
    /\ HasDh => HasDh'
    /\ (pc # "freed" /\ pc' = "freed") => ret'.op = "free"
    /\ pc = "freed" => pc' = "freed"

C9_StateMachine == [](HasDh => HasChain) /\ [][Monotonic]_vars

\* C9, as amended: DH params may be attached with no chain and key; a reference
\* once attached stays attached, and only free() ends the configuration's life.
C9_Monotonic == [][Monotonic]_vars

C9_Witness ==
    /\ Returned("add_cert") /\ ret.rc < 0
    /\ pre.dhparams.ptr = "valid" /\ HasDh
    /\ pre.cert_and_key_pairs.ptr = "NULL" /\ HasChain

(***************************************************************************)
(* C10.  The chain-building loop terminates: a successful decoder call     *)
(* consumes one block and moves the read cursor forward, the loop is left  *)
(* as soon as the decoder fails or no unread byte remains, and it makes at *)
(* most one pass more than the text has blocks.                            *)
(***************************************************************************)
LoopStep ==
    (pc = "loop" /\ iterations' = iterations + 1) =>
        /\ decode_err' = "none" =>
            /\ chain_in_stuffer'.read_cursor > chain_in_stuffer.read_cursor
            /\ BlocksBefore(ChainText, chain_in_stuffer'.read_cursor)
                 = BlocksBefore(ChainText, chain_in_stuffer.read_cursor) + 1
        /\ pc' = "loop" =>
            /\ decode_err' = "none"
            /\ s2n_stuffer_data_available(chain_in_stuffer') > 0

C10_LoopTerminates ==
    /\ [](ret.op = "add_cert" => iterations <= NumBlocks(ChainText) + 1)
    /\ [][LoopStep]_vars
    /\ (pc = "loop") ~> (pc = "idle")

C10_Witness ==
    /\ Returned("add_cert") /\ ret.rc = 0
    /\ args.cert_chain_pem = <<"GoodA", "Junk">>
    /\ NumBlocks(ChainText) = 1
    /\ iterations = 2

====
